---- MODULE Spec2Model ----
(***************************************************************************)
(* Model of SpeechBot (src/bot.py, src/utils.py): the speech metrics       *)
(* (count_fillers, detect_pauses, analyze_prosody, analyze_speech,         *)
(* analyze_text_quality), the statistics of the users (update_user_stats,  *)
(* stats_handler) and the handler of audio messages (audio_handler).       *)
(*                                                                         *)
(* Representation                                                          *)
(*   - a string is a sequence of Unicode code points (117 is "u");         *)
(*   - a time is an integer number of milliseconds, a rate an exact       *)
(*     quotient of integers;                                               *)
(*   - a frame energy is an integer number of 1e-4 units and a pitch an    *)
(*     integer number of 0.1 Hz, the precisions of the reported values,    *)
(*     so that the roundings of the code (round(x, 1), round(x, 2),        *)
(*     round(x, 4)) are real conversions of exact values;                  *)
(*   - the arrays librosa returns per frame (rms, the selected piptrack    *)
(*     candidate) are inputs, kept run-length encoded in the state and     *)
(*     expanded frame by frame when the code reads them;                   *)
(*   - arithmetic is exact where the code uses floats;                     *)
(*   - a dict is a function on its keys, a file system a dict of paths.    *)
(***************************************************************************)
EXTENDS Bags, FiniteSets, Integers, Sequences, TLC

VARIABLES
  fn,        \* the function under analysis
  pc,        \* "call" before the function ran, "ret" after it returned
  text,      \* the transcript, a sequence of code points
  lang,      \* "ru" or "en"
  nsamples,  \* len(y), the number of samples of the waveform
  rmsSegs,   \* run-length encoding of librosa.feature.rms(y)[0]
  rmsTail,   \* energy of the frames after the encoded runs
  pitchSegs, \* run-length encoding of the selected pitch candidate per frame
  ret,       \* the value the function returned
  harmonic_called, \* whether the call reached librosa.effects.harmonic
  user_stats,      \* the global dict user_stats
  user_languages,  \* the global dict user_languages
  history_log,     \* per user, every summary ever appended to the history
  reply,           \* the reply of stats_handler, until the next update
  pipe,            \* the global pipe: "None" until the first audio arrives
  tasks,           \* per run of audio_handler, its locals and position
  files,           \* the working directory: path -> the file at that path
  clashes          \* the accesses of a run to a file of another run

fnVars == <<fn, pc, text, lang, nsamples, rmsSegs, rmsTail, pitchSegs, ret,
            harmonic_called>>

botVars == <<user_stats, user_languages, history_log, reply, pipe, tasks,
             files, clashes>>

vars == <<fnVars, botVars>>

----------------------------------------------------------------------------
(* src/utils.py: the filler vocabularies, in source order.                 *)

\* FILLERS_RU, src/utils.py lines 3-10 (Cyrillic entries, code points)
FILLERS_RU ==
  {
    <<1085, 1091>>,
    <<1090, 1080, 1087, 1072>>,
    <<1082, 1086, 1088, 1086, 1095, 1077>>,
    <<1074, 32, 1086, 1073, 1097, 1077, 1084>>,
    <<1082, 1072, 1082, 32, 1073, 1099>>,
    <<1079, 1085, 1072, 1095, 1080, 1090>>,
    <<1087, 1086, 1085, 1080, 1084, 1072, 1077, 1096, 1100>>,
    <<1074, 1088, 1086, 1076, 1077>>,
    <<1089, 1086, 1073, 1089, 1090, 1074, 1077, 1085, 1085, 1086>>,
    <<1101, 1090, 1086, 32, 1089, 1072, 1084, 1086, 1077>>,
    <<1074, 1086, 1086, 1073, 1097, 1077>>,
    <<1077, 1097, 1105>>,
    <<1087, 1088, 1086, 1089, 1090, 1086>>,
    <<1085, 1072, 1087, 1088, 1080, 1084, 1077, 1088>>,
    <<1103, 32, 1076, 1091, 1084, 1072, 1102>>,
    <<1079, 1085, 1072, 1077, 1096, 1100>>,
    <<1083, 1072, 1076, 1085, 1086>>,
    <<1074, 1086, 1090>>,
    <<1090, 1072, 1082, 32, 1089, 1082, 1072, 1079, 1072, 1090, 1100>>,
    <<1089, 1088, 1072, 1079, 1091>>,
    <<1082, 1072, 1078, 1077, 1090, 1089, 1103>>,
    <<1090, 1072, 1082>>,
    <<1101, 1093>>,
    <<1082, 1086, 1088, 1086, 1095, 1077, 32, 1075, 1086, 1074, 1086, 1088, 1103>>,
    <<1084, 1077, 1078, 1076, 1091, 32, 1087, 1088, 1086, 1095, 1080, 1084>>,
    <<1087, 1086, 32, 1089, 1091, 1090, 1080>>,
    <<1082, 1072, 1082, 32, 1087, 1088, 1072, 1074, 1080, 1083, 1086>>,
    <<1074, 32, 1080, 1090, 1086, 1075, 1077>>,
    <<1074, 32, 1087, 1088, 1080, 1085, 1094, 1080, 1087, 1077>>,
    <<1095, 1077, 1089, 1090, 1085, 1086, 32, 1075, 1086, 1074, 1086, 1088, 1103>>,
    <<1085, 1072, 32, 1089, 1072, 1084, 1086, 1084, 32, 1076, 1077, 1083, 1077>>,
    <<1087, 1088, 1103, 1084, 1086>>,
    <<1085, 1091, 32, 1074, 1086, 1090>>,
    <<1082, 1089, 1090, 1072, 1090, 1080>>,
    <<1087, 1088, 1080, 32, 1101, 1090, 1086, 1084>>,
    <<1077, 1089, 1083, 1080, 32, 1095, 1077, 1089, 1090, 1085, 1086>>,
    <<1082, 1072, 1082, 32, 1085, 1080, 32, 1089, 1090, 1088, 1072, 1085, 1085, 1086>>,
    <<1087, 1086, 1078, 1072, 1083, 1091, 1081>>,
    <<1090, 1080, 1087, 1072, 32, 1090, 1086, 1075, 1086>>,
    <<1090, 1072, 1082, 32, 1074, 1086, 1090>>,
    <<1074, 32, 1086, 1073, 1097, 1077, 1084, 45, 1090, 1086>>,
    <<1089, 1080, 1083, 1100, 1085, 1086>>,
    <<1087, 1086, 1078, 1072, 1083, 1091, 1081, 1089, 1090, 1072>>,
    <<1101, 1101, 1101>>,
    <<1101, 1084, 1084>>,
    <<1084, 1084, 1084>>,
    <<1072, 1093>>,
    <<1086, 1081>>,
    <<1091, 1075, 1091>>,
    <<1101, 1101, 8230>>,
    <<1101, 1084, 1084, 8230>>,
    <<1084, 1084, 8230>>,
    <<1072, 1093, 8230>>,
    <<1086, 1093>>,
    <<1101, 1093, 8230>>,
    <<1084, 1084, 45, 1093, 1084>>,
    <<1072, 1072, 1072>>
  }

\* FILLERS_EN, src/utils.py lines 12-17
FILLERS_EN ==
  {
    <<117, 109>>,  \* "um"
    <<117, 104>>,  \* "uh"
    <<108, 105, 107, 101>>,  \* "like"
    <<121, 111, 117, 32, 107, 110, 111, 119>>,  \* "you know"
    <<98, 97, 115, 105, 99, 97, 108, 108, 121>>,  \* "basically"
    <<97, 99, 116, 117, 97, 108, 108, 121>>,  \* "actually"
    <<108, 105, 116, 101, 114, 97, 108, 108, 121>>,  \* "literally"
    <<115, 111, 114, 116, 32, 111, 102>>,  \* "sort of"
    <<107, 105, 110, 100, 32, 111, 102>>,  \* "kind of"
    <<105, 32, 109, 101, 97, 110>>,  \* "i mean"
    <<114, 105, 103, 104, 116>>,  \* "right"
    <<111, 107, 97, 121>>,  \* "okay"
    <<119, 101, 108, 108>>,  \* "well"
    <<115, 111>>,  \* "so"
    <<97, 110, 121, 119, 97, 121>>,  \* "anyway"
    <<104, 111, 110, 101, 115, 116, 108, 121>>,  \* "honestly"
    <<115, 101, 114, 105, 111, 117, 115, 108, 121>>,  \* "seriously"
    <<111, 98, 118, 105, 111, 117, 115, 108, 121>>,  \* "obviously"
    <<100, 101, 102, 105, 110, 105, 116, 101, 108, 121>>,  \* "definitely"
    <<116, 111, 116, 97, 108, 108, 121>>,  \* "totally"
    <<114, 101, 97, 108, 108, 121>>,  \* "really"
    <<106, 117, 115, 116>>,  \* "just"
    <<109, 97, 121, 98, 101>>,  \* "maybe"
    <<112, 101, 114, 104, 97, 112, 115>>,  \* "perhaps"
    <<112, 114, 111, 98, 97, 98, 108, 121>>,  \* "probably"
    <<101, 115, 115, 101, 110, 116, 105, 97, 108, 108, 121>>,  \* "essentially"
    <<112, 114, 97, 99, 116, 105, 99, 97, 108, 108, 121>>,  \* "practically"
    <<118, 105, 114, 116, 117, 97, 108, 108, 121>>,  \* "virtually"
    <<103, 101, 110, 101, 114, 97, 108, 108, 121>>,  \* "generally"
    <<97, 112, 112, 97, 114, 101, 110, 116, 108, 121>>,  \* "apparently"
    <<115, 117, 112, 112, 111, 115, 101, 100, 108, 121>>,  \* "supposedly"
    <<112, 114, 101, 115, 117, 109, 97, 98, 108, 121>>,  \* "presumably"
    <<97, 108, 108, 101, 103, 101, 100, 108, 121>>,  \* "allegedly"
    <<104, 109, 109>>,  \* "hmm"
    <<101, 114, 114>>,  \* "err"
    <<97, 104>>,  \* "ah"
    <<111, 104>>,  \* "oh"
    <<121, 101, 97, 104>>,  \* "yeah"
    <<121, 101, 112>>,  \* "yep"
    <<110, 97, 104>>  \* "nah"
  }

----------------------------------------------------------------------------
(* Strings: str.lower() and re.findall(r"\b\w+\b", s), over ASCII and the  *)
(* Russian alphabet.                                                       *)

\* \w of a Python 3 str pattern: letters, digits and the underscore
IsWordChar(c) ==
  \/ c \in 48..57
  \/ c \in 65..90
  \/ c = 95
  \/ c \in 97..122
  \/ c = 1025
  \/ c \in 1040..1103
  \/ c = 1105

LowerChar(c) ==
  IF c \in 65..90 \/ c \in 1040..1071 THEN c + 32
  ELSE IF c = 1025 THEN 1105
  ELSE c

lower(s) == [i \in 1..Len(s) |-> LowerChar(s[i])]

\* the maximal runs of word characters of s[lo..hi], in order: the runs of
\* the two halves, the run that crosses the middle joined
RECURSIVE findall_range(_, _, _, _)
findall_range(s, lo, hi, blank) ==
  LET isw(c) == IsWordChar(c) \/ (blank /\ c = 32)
  IN  IF lo > hi THEN <<>>
      ELSE IF lo = hi
           THEN IF isw(s[lo]) THEN << <<s[lo]>> >> ELSE <<>>
           ELSE LET mid == (lo + hi) \div 2
                    L   == findall_range(s, lo, mid, blank)
                    R   == findall_range(s, mid + 1, hi, blank)
                IN  IF isw(s[mid]) /\ isw(s[mid + 1])
                    THEN SubSeq(L, 1, Len(L) - 1)
                           \o << L[Len(L)] \o R[1] >> \o Tail(R)
                    ELSE L \o R

\* a tokenizer that also takes the blank for a word character
findall_blank(s) == findall_range(s, 1, Len(s), TRUE)

\* re.findall(r"\b\w+\b", s): the maximal runs of word characters, in order
findall(s) == findall_range(s, 1, Len(s), FALSE)

----------------------------------------------------------------------------
(* A dict is a function on the set of its keys.                            *)

EmptyDict == <<>>

dict_get(d, k, default) == IF k \in DOMAIN d THEN d[k] ELSE default

dict_set(d, k, v) == [x \in (DOMAIN d) \cup {k} |-> IF x = k THEN v ELSE d[x]]

\* a total that counts the distinct keys, len(d), instead of the occurrences
sum_values_keys(d) == Cardinality(DOMAIN d)

\* sum(d.values())
RECURSIVE sum_values(_)
sum_values(d) ==
  IF DOMAIN d = {} THEN 0
  ELSE LET k == CHOOSE x \in DOMAIN d : TRUE
       IN  d[k] + sum_values([x \in (DOMAIN d) \ {k} |-> d[x]])

----------------------------------------------------------------------------
(* count_fillers, src/bot.py lines 105-116                                 *)

\* the for loop of lines 111-113, from word i on
RECURSIVE filler_loop(_, _, _, _)
filler_loop(words, i, fillers, filler_details) ==
  IF i > Len(words) THEN filler_details
  ELSE IF words[i] \in fillers
       THEN filler_loop(words, i + 1, fillers,
              dict_set(filler_details, words[i],
                       dict_get(filler_details, words[i], 0) + 1))
       ELSE filler_loop(words, i + 1, fillers, filler_details)

\* count_fillers that forgets to lower-case the text
count_fillers_nolower(t, l) ==
  LET fillers == IF l = "ru" THEN FILLERS_RU ELSE FILLERS_EN
      words   == findall(t)
      filler_details == filler_loop(words, 1, fillers, EmptyDict)
  IN  [total_count |-> sum_values(filler_details),
       filler_details |-> filler_details]

count_fillers(t, l) ==
  LET fillers == IF l = "ru" THEN FILLERS_RU ELSE FILLERS_EN
      words   == findall(lower(t))
      filler_details == filler_loop(words, 1, fillers, EmptyDict)
  IN  [total_count |-> sum_values(filler_details),
       filler_details |-> filler_details]

----------------------------------------------------------------------------
(* The waveform and the per-frame arrays of librosa                        *)

\* librosa.load(audio_path, sr=16000)
SR == 16000

\* detect_pauses: hop = 512
hop == 512

\* the frames of librosa.feature.rms and librosa.piptrack (centered frames,
\* hop 512): 1 + len(y) // hop, numbered from 0
NumFrames(n) == 1 + n \div hop

\* value at 1-based position i of a run-length encoded array that goes on
\* with the value tl after its last run
RECURSIVE SegValue(_, _, _)
SegValue(segs, tl, i) ==
  IF segs = <<>> THEN tl
  ELSE IF i <= Head(segs).len THEN Head(segs).val
       ELSE SegValue(Tail(segs), tl, i - Head(segs).len)

\* librosa.feature.rms(y=y, frame_length=2048, hop_length=hop)[0]
rms(n, segs, tl) == [f \in 0..(NumFrames(n) - 1) |-> SegValue(segs, tl, f + 1)]

Range(a) == { a[f] : f \in DOMAIN a }

----------------------------------------------------------------------------
(* detect_pauses, src/bot.py lines 223-252                                 *)

\* the k-th smallest value of array a, k counted from 0
order_stat(a, k) ==
  CHOOSE v \in Range(a) :
    /\ Cardinality({ f \in DOMAIN a : a[f] < v }) <= k
    /\ Cardinality({ f \in DOMAIN a : a[f] <= v }) >= k + 1

\* 100 * np.percentile(a, 15), linear interpolation between the two order
\* statistics around position 0.15 * (n - 1)
percentile15(a) ==
  LET n   == Cardinality(DOMAIN a)
      pos == 15 * (n - 1)
      lo  == pos \div 100
      fr  == pos % 100
      hi  == IF lo + 1 <= n - 1 THEN lo + 1 ELSE lo
      vlo == order_stat(a, lo)
      vhi == order_stat(a, hi)
  IN  100 * vlo + (vhi - vlo) * fr

\* np.where(energy < threshold)[0], as the set of its frame indices
silence_frames(energy) ==
  LET threshold == percentile15(energy)
  IN  { f \in DOMAIN energy : 100 * energy[f] < threshold }

\* (prev - start) * frame_duration in milliseconds, frame_duration = hop / sr
\* (exact: hop * 1000 is a multiple of SR)
span_ms(start, prev) == ((prev - start) * hop * 1000) \div SR

\* duration > 0.25
keeps(duration) == duration > 250

Min(S) == CHOOSE x \in S : \A z \in S : x <= z

\* the value of prev when the loop of lines 239-245 meets the first silent
\* frame f with f - prev > 1 after start, or runs out of frames: the last
\* frame of the run of consecutive silent frames that begins at start
run_end(silent, start) ==
  CHOOSE prev \in silent :
    /\ prev >= start
    /\ \A f \in start..prev : f \in silent
    /\ (prev + 1) \notin silent

\* the for loop of lines 239-245 and the last pause of lines 248-250, taken
\* one run at a time: start is the frame the current run began at
RECURSIVE pause_loop(_, _, _)
pause_loop(silent, start, pauses) ==
  LET prev     == run_end(silent, start)
      duration == span_ms(start, prev)
      appended == IF keeps(duration) THEN Append(pauses, duration) ELSE pauses
      rest     == { f \in silent : f > prev }
  IN  IF rest = {} THEN appended
      ELSE pause_loop(silent, Min(rest), appended)

\* the list of pause durations in milliseconds, in order of time
detect_pauses(energy) ==
  LET silent == silence_frames(energy)
  IN  IF silent = {} THEN <<>>
      ELSE pause_loop(silent, Min(silent), <<>>)

----------------------------------------------------------------------------
(* Arithmetic on arrays.  Values are exact: a standard deviation is kept   *)
(* as n^2 times the variance, and a rounding gives the set of the nearest  *)
(* integers (two at an exact tie, where the result of round() depends on   *)
(* the binary representation of the float).                                *)

Count(a, v) == Cardinality({ f \in DOMAIN a : a[f] = v })

\* the sum of w(v) * (number of entries of a equal to v) over the values vs
RECURSIVE HistSum(_, _, _)
HistSum(a, vs, sq) ==
  IF vs = {} THEN 0
  ELSE LET v == CHOOSE x \in vs : TRUE
       IN  (IF sq THEN v * v ELSE v) * Count(a, v) + HistSum(a, vs \ {v}, sq)

ArraySum(a) == HistSum(a, Range(a), FALSE)

ArraySumSq(a) == HistSum(a, Range(a), TRUE)

ArrayLen(a) == Cardinality(DOMAIN a)

\* n^2 * np.var(a)
n2var(a) == ArrayLen(a) * ArraySumSq(a) - ArraySum(a) * ArraySum(a)

\* sqrt(v2) / n > t, for v2 = n2var(a) and n = len(a) > 0: np.std(a) > t
std_gt(v2, n, t) ==
  \/ v2 \div (n * n) > t * t
  \/ v2 \div (n * n) = t * t /\ v2 % (n * n) > 0

\* the integers nearest to num / den, for num >= 0 and den > 0
round_div(num, den) ==
  LET q == num \div den
      r == num % den
  IN  (IF 2 * r <= den THEN {q} ELSE {}) \cup (IF 2 * r >= den THEN {q + 1} ELSE {})

Max(S) == CHOOSE x \in S : \A z \in S : x >= z

\* the integers nearest to sqrt(v2) / n: the roundings of np.std(a) for an
\* array of n values spread over hi, whose deviation is at most hi / 2
round_std(v2, n, hi) ==
  { r \in 0..(hi \div 2 + 1) :
      /\ r = 0 \/ (2 * r - 1) * (2 * r - 1) * n * n <= 4 * v2
      /\ 4 * v2 <= (2 * r + 1) * (2 * r + 1) * n * n }

Spread(a) == Max(Range(a)) - Min(Range(a))

----------------------------------------------------------------------------
(* The labels, as the strings of the source                                *)

\* "optimal", src/bot.py line 188
TEMPO_EN_OPTIMAL ==
  <<111, 112, 116, 105, 109, 97, 108>>

\* "too slow", src/bot.py line 189
TEMPO_EN_SLOW ==
  <<116, 111, 111, 32, 115, 108, 111, 119>>

\* "too fast", src/bot.py line 190
TEMPO_EN_FAST ==
  <<116, 111, 111, 32, 102, 97, 115, 116>>

\* the Russian label, src/bot.py line 194
TEMPO_RU_OPTIMAL ==
  <<1086, 1087, 1090, 1080, 1084, 1072, 1083, 1100, 1085, 1099, 1081>>

\* the Russian label, src/bot.py line 195
TEMPO_RU_SLOW ==
  <<1089, 1083, 1080, 1096, 1082, 1086, 1084, 32, 1084, 1077, 1076,
   1083, 1077, 1085, 1085, 1099, 1081>>

\* the Russian label, src/bot.py line 196
TEMPO_RU_FAST ==
  <<1089, 1083, 1080, 1096, 1082, 1086, 1084, 32, 1073, 1099, 1089,
   1090, 1088, 1099, 1081>>

\* "very low (lively sound)", src/bot.py line 145
MONOTONY_EN_LIVELY ==
  <<118, 101, 114, 121, 32, 108, 111, 119, 32, 40, 108, 105, 118, 101,
   108, 121, 32, 115, 111, 117, 110, 100, 41>>

\* "moderate", src/bot.py line 146
MONOTONY_EN_MODERATE ==
  <<109, 111, 100, 101, 114, 97, 116, 101>>

\* "high (monotonous)", src/bot.py line 147
MONOTONY_EN_HIGH ==
  <<104, 105, 103, 104, 32, 40, 109, 111, 110, 111, 116, 111, 110, 111,
   117, 115, 41>>

\* "pronounced dynamics", src/bot.py line 150
DYNAMICS_EN_PRONOUNCED ==
  <<112, 114, 111, 110, 111, 117, 110, 99, 101, 100, 32, 100, 121, 110,
   97, 109, 105, 99, 115>>

\* "medium dynamics", src/bot.py line 151
DYNAMICS_EN_MEDIUM ==
  <<109, 101, 100, 105, 117, 109, 32, 100, 121, 110, 97, 109, 105, 99,
   115>>

\* "flat (almost no volume changes)", src/bot.py line 152
DYNAMICS_EN_FLAT ==
  <<102, 108, 97, 116, 32, 40, 97, 108, 109, 111, 115, 116, 32, 110,
   111, 32, 118, 111, 108, 117, 109, 101, 32, 99, 104, 97, 110, 103,
   101, 115, 41>>

\* the Russian label, src/bot.py line 156
MONOTONY_RU_LIVELY ==
  <<1086, 1095, 1077, 1085, 1100, 32, 1085, 1080, 1079, 1082, 1072,
   1103, 32, 40, 1078, 1080, 1074, 1086, 1077, 32, 1079, 1074, 1091,
   1095, 1072, 1085, 1080, 1077, 41>>

\* the Russian label, src/bot.py line 157
MONOTONY_RU_MODERATE ==
  <<1091, 1084, 1077, 1088, 1077, 1085, 1085, 1072, 1103>>

\* the Russian label, src/bot.py line 158
MONOTONY_RU_HIGH ==
  <<1074, 1099, 1089, 1086, 1082, 1072, 1103, 32, 40, 1084, 1086, 1085,
   1086, 1090, 1086, 1085, 1085, 1086, 41>>

\* the Russian label, src/bot.py line 161
DYNAMICS_RU_PRONOUNCED ==
  <<1103, 1088, 1082, 1086, 32, 1074, 1099, 1088, 1072, 1078, 1077,
   1085, 1085, 1072, 1103, 32, 1076, 1080, 1085, 1072, 1084, 1080, 1082,
   1072>>

\* the Russian label, src/bot.py line 162
DYNAMICS_RU_MEDIUM ==
  <<1089, 1088, 1077, 1076, 1085, 1103, 1103, 32, 1076, 1080, 1085,
   1072, 1084, 1080, 1082, 1072>>

\* the Russian label, src/bot.py line 163
DYNAMICS_RU_FLAT ==
  <<1087, 1083, 1086, 1089, 1082, 1072, 1103, 32, 40, 1087, 1086, 1095,
   1090, 1080, 32, 1085, 1077, 1090, 32, 1080, 1079, 1084, 1077, 1085,
   1077, 1085, 1080, 1081, 32, 1075, 1088, 1086, 1084, 1082, 1086, 1089,
   1090, 1080, 41>>

----------------------------------------------------------------------------
(* analyze_prosody, src/bot.py lines 119-173.  Pitches are in 0.1 Hz and   *)
(* energies in 1e-4, the precision of the reported values.                 *)

\* pitches[magnitudes[:, f].argmax(), f] of librosa.piptrack for each frame
\* f: the pitch of the strongest candidate, 0 where the frame has none
piptrack_selected(n, segs) ==
  [f \in 0..(NumFrames(n) - 1) |-> SegValue(segs, 0, f + 1)]

\* the j-th smallest element of a set of frame indices, j from 1
NthFrame(V, j) == CHOOSE f \in V : Cardinality({ g \in V : g < f }) = j - 1

\* the list pitch after the loop of lines 124-128
voiced_pitch(vals) ==
  LET V == { f \in DOMAIN vals : vals[f] > 0 }
  IN  [j \in 1..Cardinality(V) |-> vals[NthFrame(V, j)]]

\* line 131: whether librosa.effects.harmonic is applied to the pitch array
smoothed(picked) == Len(picked) > 10

\* the monotony label from "pitch_var > 60" and "pitch_var > 30"
monotony_label(l, gt60, gt30) ==
  IF l = "en"
  THEN IF gt60 THEN MONOTONY_EN_LIVELY
       ELSE IF gt30 THEN MONOTONY_EN_MODERATE ELSE MONOTONY_EN_HIGH
  ELSE IF gt60 THEN MONOTONY_RU_LIVELY
       ELSE IF gt30 THEN MONOTONY_RU_MODERATE ELSE MONOTONY_RU_HIGH

\* the dynamics label from "energy_var > 0.03" and "energy_var > 0.015"
dynamics_label(l, gt03, gt015) ==
  IF l = "en"
  THEN IF gt03 THEN DYNAMICS_EN_PRONOUNCED
       ELSE IF gt015 THEN DYNAMICS_EN_MEDIUM ELSE DYNAMICS_EN_FLAT
  ELSE IF gt03 THEN DYNAMICS_RU_PRONOUNCED
       ELSE IF gt015 THEN DYNAMICS_RU_MEDIUM ELSE DYNAMICS_RU_FLAT

\* analyze_prosody taking the statistics of a single observation too
analyze_prosody_one(vals, energy, l, harm) ==
  LET picked == voiced_pitch(vals)
      pitch  == IF smoothed(picked) THEN harm ELSE picked
      some   == Len(pitch) > 0
      pn     == Len(pitch)
      pv2    == n2var(pitch)
      en     == ArrayLen(energy)
      ev2    == n2var(energy)
  IN  { [pitch_mean      |-> pm,
         pitch_variance  |-> pv,
         monotony        |-> monotony_label(l, some /\ std_gt(pv2, pn, 600),
                                               some /\ std_gt(pv2, pn, 300)),
         energy_variance |-> ev,
         energy_mean     |-> em,
         energy_rating   |-> dynamics_label(l, std_gt(ev2, en, 300),
                                               std_gt(ev2, en, 150))] :
        pm \in (IF some THEN round_div(ArraySum(pitch), pn) ELSE {0}),
        pv \in (IF some THEN round_std(pv2, pn, Spread(pitch)) ELSE {0}),
        ev \in round_std(ev2, en, Spread(energy)),
        em \in round_div(ArraySum(energy), en) }

\* the records analyze_prosody can return (pitches in 0.1 Hz, energies in
\* 1e-4); harm is what librosa.effects.harmonic returns for the pitch array
analyze_prosody(vals, energy, l, harm) ==
  LET picked == voiced_pitch(vals)
      pitch  == IF smoothed(picked) THEN harm ELSE picked
      some   == Len(pitch) > 1
      pn     == Len(pitch)
      pv2    == n2var(pitch)
      en     == ArrayLen(energy)
      ev2    == n2var(energy)
  IN  { [pitch_mean      |-> pm,
         pitch_variance  |-> pv,
         monotony        |-> monotony_label(l, some /\ std_gt(pv2, pn, 600),
                                               some /\ std_gt(pv2, pn, 300)),
         energy_variance |-> ev,
         energy_mean     |-> em,
         energy_rating   |-> dynamics_label(l, std_gt(ev2, en, 300),
                                               std_gt(ev2, en, 150))] :
        pm \in (IF some THEN round_div(ArraySum(pitch), pn) ELSE {0}),
        pv \in (IF some THEN round_std(pv2, pn, Spread(pitch)) ELSE {0}),
        ev \in round_std(ev2, en, Spread(energy)),
        em \in round_div(ArraySum(energy), en) }

\* what librosa.effects.harmonic(pitch) may return where line 132 calls it:
\* an array of the same length (the array itself, or one flattened to its
\* first value); the array itself where it is not called
HarmonicOutputs(picked) ==
  IF smoothed(picked)
  THEN { picked, [j \in 1..Len(picked) |-> picked[1]] }
  ELSE { picked }

----------------------------------------------------------------------------
(* analyze_text_quality, src/bot.py lines 255-276                          *)

IsSpace(c) == c \in {9, 10, 13, 32}

\* ".", "!" and "?"
SentenceEnders == {46, 33, 63}

\* nltk.tokenize.sent_tokenize(t, language) on text without abbreviations,
\* initials or ellipses: a sentence ends at a ".", "!" or "?" that is
\* followed by white space or ends the text, and at the last character that
\* is not white space; the sentences are the stretches between these ends,
\* without the white space around them
sent_tokenize(t, language) ==
  LET n       == Len(t)
      closing == { i \in 1..n : /\ t[i] \in SentenceEnders
                                /\ (i = n \/ IsSpace(t[i + 1])) }
      final   == { i \in 1..n : /\ ~IsSpace(t[i])
                                /\ \A j \in (i + 1)..n : IsSpace(t[j]) }
      ends    == closing \cup final
      prev(e) == IF \E d \in ends : d < e
                 THEN CHOOSE d \in ends : d < e /\ \A c \in ends : c < e => c <= d
                 ELSE 0
      first(e) == CHOOSE i \in (prev(e) + 1)..e :
                    /\ ~IsSpace(t[i])
                    /\ \A j \in (prev(e) + 1)..(i - 1) : IsSpace(t[j])
      nth(j)  == CHOOSE e \in ends : Cardinality({ d \in ends : d < e }) = j - 1
  IN  [j \in 1..Cardinality(ends) |-> SubSeq(t, first(nth(j)), nth(j))]

\* s.split(): the maximal runs of characters that are not white space
split(s) ==
  LET n      == Len(s)
      starts == { i \in 1..n : ~IsSpace(s[i]) /\ (i = 1 \/ IsSpace(s[i - 1])) }
      stops  == { i \in 1..n : ~IsSpace(s[i]) /\ (i = n \/ IsSpace(s[i + 1])) }
      nth(S, j) == CHOOSE e \in S : Cardinality({ d \in S : d < e }) = j - 1
  IN  [j \in 1..Cardinality(starts) |-> SubSeq(s, nth(starts, j), nth(stops, j))]

\* sum(len(s.split()) for s in sentences)
RECURSIVE sum_split(_)
sum_split(sentences) ==
  IF sentences = <<>> THEN 0
  ELSE Len(split(Head(sentences))) + sum_split(Tail(sentences))

\* a mean taken without the test for an empty list
avg_sentence_len_unguarded(sentences) ==
  [num |-> sum_split(sentences), den |-> Len(sentences)]

\* line 260: the average as the fraction num / den, 0 / 1 for no sentence
avg_sentence_len(sentences) ==
  IF sentences # <<>>
  THEN [num |-> sum_split(sentences), den |-> Len(sentences)]
  ELSE [num |-> 0, den |-> 1]

\* a selection that takes the sentences of 20 words too
too_long_ge(sentences) ==
  SelectSeq(sentences, LAMBDA s : Len(split(s)) >= 20)

\* line 262
too_long(sentences) ==
  SelectSeq(sentences, LAMBDA s : Len(split(s)) > 20)

\* a loop that counts the words of 4 characters too
RECURSIVE repetition_loop_ge(_, _, _)
repetition_loop_ge(words, i, repetitions) ==
  IF i > Len(words) THEN repetitions
  ELSE LET w == words[i]
       IN  IF Len(w) >= 4
           THEN repetition_loop_ge(words, i + 1,
                       dict_set(repetitions, w, dict_get(repetitions, w, 0) + 1))
           ELSE repetition_loop_ge(words, i + 1, repetitions)

\* lines 266-268, from the i-th word on
RECURSIVE repetition_loop(_, _, _)
repetition_loop(words, i, repetitions) ==
  IF i > Len(words) THEN repetitions
  ELSE LET w == words[i]
       IN  IF Len(w) > 4
           THEN repetition_loop(words, i + 1,
                       dict_set(repetitions, w, dict_get(repetitions, w, 0) + 1))
           ELSE repetition_loop(words, i + 1, repetitions)

\* line 269
frequent(repetitions) ==
  [w \in { k \in DOMAIN repetitions : repetitions[k] >= 3 } |-> repetitions[w]]

analyze_text_quality(t, l) ==
  LET language  == IF l = "ru" THEN "russian" ELSE "english"
      sentences == sent_tokenize(t, language)
      words     == findall(lower(t))
  IN  [sentence_count      |-> Len(sentences),
       avg_sentence_length |-> avg_sentence_len(sentences),
       long_sentences      |-> too_long(sentences),
       repetitions         |-> frequent(repetition_loop(words, 1, EmptyDict))]

----------------------------------------------------------------------------
(* analyze_speech, src/bot.py lines 176-220                                *)

OPTIMAL_WPM_MIN == 120

OPTIMAL_WPM_MAX == 150

\* the tempo label of lines 186-197 for wpm = num / den (den > 0)
tempo_label(l, num, den) ==
  IF l = "en"
  THEN IF OPTIMAL_WPM_MIN * den <= num /\ num <= OPTIMAL_WPM_MAX * den
       THEN TEMPO_EN_OPTIMAL
       ELSE IF num < OPTIMAL_WPM_MIN * den THEN TEMPO_EN_SLOW
            ELSE TEMPO_EN_FAST
  ELSE IF OPTIMAL_WPM_MIN * den <= num /\ num <= OPTIMAL_WPM_MAX * den
       THEN TEMPO_RU_OPTIMAL
       ELSE IF num < OPTIMAL_WPM_MIN * den THEN TEMPO_RU_SLOW
            ELSE TEMPO_RU_FAST

\* a short bucket that reaches up to the long one
count_short_wide(pauses) ==
  Cardinality({ j \in 1..Len(pauses) : 300 <= pauses[j] /\ pauses[j] <= 1500 })

\* sum(1 for p in pauses if 0.3 <= p <= 1.0), p in milliseconds
count_short(pauses) ==
  Cardinality({ j \in 1..Len(pauses) : 300 <= pauses[j] /\ pauses[j] <= 1000 })

\* sum(1 for p in pauses if p > 1.5)
count_long(pauses) ==
  Cardinality({ j \in 1..Len(pauses) : pauses[j] > 1500 })

\* a rate that divides by the duration in seconds
wpm_rounded_sec(nwords, n) ==
  IF n > 0 THEN round_div(nwords * SR * 10, n) ELSE {0}

\* round(wpm, 1) in tenths, wpm = len(words) / (duration / 60) with
\* duration = n / SR, and 0 when the duration is 0
wpm_rounded(nwords, n) ==
  IF n > 0 THEN round_div(nwords * 60 * SR * 10, n) ELSE {0}

\* the records analyze_speech can return for a waveform of n samples with
\* frame energies energy and selected pitches vals
analyze_speech(n, energy, vals, t, l, harm) ==
  LET words   == findall(t)
      num     == Len(words) * 60 * SR
      den     == IF n > 0 THEN n ELSE 1
      pauses  == detect_pauses(energy)
      fillers == count_fillers(t, l)
  IN  { [duration_sec     |-> d,
         word_count       |-> Len(words),
         words_per_minute |-> w,
         tempo_rating     |-> tempo_label(l, IF n > 0 THEN num ELSE 0, den),
         short_pauses     |-> count_short(pauses),
         long_pauses      |-> count_long(pauses),
         fillers_count    |-> fillers.total_count,
         filler_details   |-> fillers.filler_details,
         prosody          |-> pr] :
        d \in round_div(n * 100, SR),
        w \in wpm_rounded(Len(words), n),
        pr \in analyze_prosody(vals, energy, l, harm) }

----------------------------------------------------------------------------
(* The statistics of the users, src/bot.py lines 444-469 and 511-527.      *)
(* words_per_minute and the averages are in tenths, duration_sec in        *)
(* hundredths, as analyze_speech reports them.                             *)

Users == {1, 2}

\* datetime.now().strftime('%Y-%m-%d %H:%M'): the clock is not modelled
Now == "now"

HISTORY_SIZE == 10

\* lines 446-453
new_stats ==
  [total_analyses     |-> 0,
   total_wpm          |-> 0,
   total_fillers      |-> 0,
   last_analysis_date |-> "None",
   analyses_history   |-> <<>>]

\* lines 462-467
summary(analysis, date) ==
  [date     |-> date,
   wpm      |-> analysis.words_per_minute,
   fillers  |-> analysis.fillers_count,
   duration |-> analysis.duration_sec]

\* an update that evicts the newest entry of a full history
update_user_stats_lifo(stats_of, user_id, analysis) ==
  LET stats    == dict_get(stats_of, user_id, new_stats)
      appended == Append(stats.analyses_history, summary(analysis, Now))
  IN  dict_set(stats_of, user_id,
        [total_analyses     |-> stats.total_analyses + 1,
         total_wpm          |-> stats.total_wpm + analysis.words_per_minute,
         total_fillers      |-> stats.total_fillers + analysis.fillers_count,
         last_analysis_date |-> Now,
         analyses_history   |-> IF Len(appended) > HISTORY_SIZE
                                THEN SubSeq(appended, 1, Len(appended) - 1)
                                ELSE appended])

\* an update whose totals are those of the retained history
update_user_stats_retained(stats_of, user_id, analysis) ==
  LET stats    == dict_get(stats_of, user_id, new_stats)
      appended == Append(stats.analyses_history, summary(analysis, Now))
      kept     == IF Len(appended) > HISTORY_SIZE THEN Tail(appended) ELSE appended
  IN  dict_set(stats_of, user_id,
        [total_analyses     |-> stats.total_analyses + 1,
         total_wpm          |-> ArraySum([j \in DOMAIN kept |-> kept[j].wpm]),
         total_fillers      |-> ArraySum([j \in DOMAIN kept |-> kept[j].fillers]),
         last_analysis_date |-> Now,
         analyses_history   |-> kept])

\* update_user_stats(user_id, analysis) on the dict stats_of: the dict after
\* the call
update_user_stats(stats_of, user_id, analysis) ==
  LET stats    == dict_get(stats_of, user_id, new_stats)
      appended == Append(stats.analyses_history, summary(analysis, Now))
  IN  dict_set(stats_of, user_id,
        [total_analyses     |-> stats.total_analyses + 1,
         total_wpm          |-> stats.total_wpm + analysis.words_per_minute,
         total_fillers      |-> stats.total_fillers + analysis.fillers_count,
         last_analysis_date |-> Now,
         analyses_history   |-> IF Len(appended) > HISTORY_SIZE
                                THEN Tail(appended)
                                ELSE appended])

\* stats_handler, lines 511-527: the replies it can send, with the divisor
\* of the two averages (0 where none is taken)
stats_handler(stats_of, languages, user_id) ==
  LET l == dict_get(languages, user_id, "en")
  IN  IF user_id \notin DOMAIN stats_of \/ stats_of[user_id].total_analyses = 0
      THEN { [to |-> user_id, lang |-> l, kind |-> "stats_empty", divisor |-> 0,
              total_analyses |-> 0, avg_wpm |-> 0, avg_fillers |-> 0] }
      ELSE LET stats == stats_of[user_id]
           IN  { [to |-> user_id, lang |-> l, kind |-> "stats_title",
                  divisor |-> stats.total_analyses,
                  total_analyses |-> stats.total_analyses,
                  avg_wpm |-> w, avg_fillers |-> f] :
                 w \in round_div(stats.total_wpm, stats.total_analyses),
                 f \in round_div(10 * stats.total_fillers, stats.total_analyses) }

NoReply == [to |-> 0, lang |-> "en", kind |-> "none", divisor |-> 0,
            total_analyses |-> 0, avg_wpm |-> 0, avg_fillers |-> 0]

----------------------------------------------------------------------------
(* audio_handler, src/bot.py lines 689-797: the locals of a run and the    *)
(* files it works on.  A run is suspended at each await and runs without   *)
(* interruption between two awaits; the runs of two messages interleave at *)
(* the awaits, as they do when the updates are dispatched concurrently.    *)
(* get_file, the download, ffmpeg, the recognizer, analyze_speech and      *)
(* query_llm may raise; the sending, editing and deleting of messages and  *)
(* os.remove on an existing file succeed.                                  *)

\* the two audio messages handled
Runs == {1, 2}

\* a run before its message arrives; None is written <<>> for a path
IdleTask ==
  [pc         |-> "idle",
   user_id    |-> 0,
   ui_lang    |-> "en",
   input_path |-> <<>>,
   wav_path   |-> <<>>,
   status     |-> "none",
   replies    |-> <<>>,
   heard      |-> 0,
   analysis   |-> <<>>,
   raised     |-> "none",
   failed_at  |-> "none"]

\* f"temp_audio_{user_id}.ogg" and f"temp_audio_{user_id}.wav"
temp_path(user_id, ext) == <<"temp_audio", user_id, ext>>

\* lines 432-441
detect_language(t) ==
  LET cyrillic_chars == Cardinality({ i \in DOMAIN t :
                          t[i] \in 1040..1103 \/ t[i] \in {1025, 1105} })
      latin_chars    == Cardinality({ i \in DOMAIN t :
                          t[i] \in 65..90 \/ t[i] \in 97..122 })
  IN  IF cyrillic_chars > latin_chars /\ 10 * cyrillic_chars > 3 * Len(t)
      THEN "ru" ELSE "en"

\* a finally clause that removes the downloaded file only
cleanup_input_only(fs, task) ==
  [q \in (DOMAIN fs) \ {task.input_path} |-> fs[q]]

\* lines 789-797: the directory after the finally clause of a run
cleanup(fs, task) ==
  [q \in (DOMAIN fs) \ {task.input_path, task.wav_path} |-> fs[q]]

\* the except clauses, lines 782-788: the message sent for an exception
error_key(raised) ==
  IF raised = "TimeoutExpired" THEN "timeout_error" ELSE "error"

\* the state of the bot after the module is loaded, lines 35-36 and 686
BotIdle ==
  /\ user_stats = EmptyDict
  /\ user_languages = EmptyDict
  /\ history_log = [u \in Users |-> <<>>]
  /\ reply = NoReply
  /\ pipe = "None"
  /\ tasks = [r \in Runs |-> IdleTask]
  /\ files = EmptyDict
  /\ clashes = {}

----------------------------------------------------------------------------
(* Inputs                                                                  *)

Langs == {"ru", "en"}

RECURSIVE Concat(_)
Concat(ss) == IF ss = <<>> THEN <<>> ELSE Head(ss) \o Concat(Tail(ss))

\* k copies of s
Repeat(s, k) == [i \in 1..(k * Len(s)) |-> s[((i - 1) % Len(s)) + 1]]

\* "um, like, this is, um, a test"
ScenarioTranscript ==
  <<117, 109, 44, 32, 108, 105, 107, 101, 44, 32, 116, 104, 105, 115, 32,
    105, 115, 44, 32, 117, 109, 44, 32, 97, 32, 116, 101, 115, 116>>

Pieces ==
  { <<117, 109>>,                                  \* "um"
    <<85, 109, 44, 32>>,                           \* "Um, "
    <<32, 108, 105, 107, 101, 32>>,                \* " like "
    <<121, 111, 117, 32, 107, 110, 111, 119>>,     \* "you know"
    <<107, 105, 110, 100, 32, 111, 102>>,          \* "kind of"
    <<32>>,                                        \* " "
    <<97, 95, 98>>,                                \* "a_b"
    <<1085, 1091>>,                                \* RU "nu"
    <<32, 1074, 32, 1086, 1073, 1097, 1077, 1084, 32>>, \* RU " v obshchem "
    <<1047, 1085, 1072, 1095, 1080, 1090, 44, 32>>,     \* RU "Znachit, "
    ScenarioTranscript }

MaxPieces == 3

Transcripts ==
  UNION { { Concat(ps) : ps \in [1..k -> Pieces] } : k \in 0..MaxPieces }

NoWave ==
  /\ nsamples = 0
  /\ rmsSegs = <<>>
  /\ rmsTail = 0
  /\ pitchSegs = <<>>

InitFillers ==
  /\ fn = "count_fillers"
  /\ pc = "call"
  /\ text \in Transcripts
  /\ lang \in Langs
  /\ NoWave
  /\ ret = <<>>
  /\ harmonic_called = FALSE
  /\ BotIdle

CountFillers ==
  /\ fn = "count_fillers"
  /\ pc = "call"
  /\ ret' = count_fillers(text, lang)
  /\ pc' = "ret"
  /\ UNCHANGED <<fn, text, lang, nsamples, rmsSegs, rmsTail, pitchSegs,
                 harmonic_called>>
  /\ UNCHANGED botVars

NextFillers == CountFillers

SpecFillers == InitFillers /\ [][NextFillers]_vars

----------------------------------------------------------------------------
(* analyze_text_quality and count_fillers on transcripts made of sentences *)

Word == <<119, 111, 114, 100, 32>>            \* "word "
Again == <<65, 103, 97, 105, 110, 32>>      \* "Again "

\* 25 words: "word word ... word ends."
Sentence25 == Repeat(Word, 24) \o <<101, 110, 100, 115, 46>>

\* 20 words: "word word ... word ends!"
Sentence20 == Repeat(Word, 19) \o <<101, 110, 100, 115, 33>>

\* 21 words: "Again Again ... Again ends?"
Sentence21 == Repeat(Again, 20) \o <<101, 110, 100, 115, 63>>

SentencePieces ==
  { Sentence25, Sentence20, Sentence21,
    <<72, 101, 108, 108, 111, 32, 104, 101, 108, 108, 111, 32, 72, 69, 76, 76, 79, 46>>,   \* "Hello hello HELLO."
    <<84, 104, 105, 115, 32, 116, 104, 105, 115, 32, 116, 104, 105, 115, 46>>,   \* "This this this."
    <<116, 104, 101, 114, 101>> }                          \* "there"

MaxSentences == 3

\* the pieces of ps joined by single blanks
RECURSIVE Join(_)
Join(ps) ==
  IF ps = <<>> THEN <<>>
  ELSE IF Len(ps) = 1 THEN ps[1]
  ELSE ps[1] \o <<32>> \o Join(Tail(ps))

SentenceTexts ==
  UNION { { Join(ps) : ps \in [1..k -> SentencePieces] } : k \in 0..MaxSentences }

InitText ==
  /\ fn \in {"analyze_text_quality", "count_fillers"}
  /\ pc = "call"
  /\ text \in SentenceTexts
  /\ lang \in Langs
  /\ NoWave
  /\ ret = <<>>
  /\ harmonic_called = FALSE
  /\ BotIdle

AnalyzeTextQuality ==
  /\ fn = "analyze_text_quality"
  /\ pc = "call"
  /\ ret' = analyze_text_quality(text, lang)
  /\ pc' = "ret"
  /\ UNCHANGED <<fn, text, lang, nsamples, rmsSegs, rmsTail, pitchSegs,
                 harmonic_called>>
  /\ UNCHANGED botVars

NextText == AnalyzeTextQuality \/ CountFillers

SpecText == InitText /\ [][NextText]_vars

----------------------------------------------------------------------------
(* detect_pauses on its own                                                *)

MaxSegs == 3

MaxLevel == 2

\* run lengths in frames: 8 and 9 frames lie on both sides of 0.25 s, 157
\* frames are 5 seconds
PauseSegLens == {1, 8, 9, 40, 60, 157}

PauseSegs == [val : 0..MaxLevel, len : PauseSegLens]

SegSeqs(S, m) == UNION { [1..k -> S] : k \in 1..m }

\* a number of samples that gives k frames (5 seconds for 157 frames)
FrameSamples(k) == (k - 1) * hop + 128

RECURSIVE SegTotal(_)
SegTotal(segs) ==
  IF segs = <<>> THEN 0 ELSE Head(segs).len + SegTotal(Tail(segs))

InitPauses ==
  /\ fn = "detect_pauses"
  /\ pc = "call"
  /\ text = <<>>
  /\ lang = "en"
  /\ rmsSegs \in SegSeqs(PauseSegs, MaxSegs)
  /\ rmsTail = 0
  /\ nsamples = FrameSamples(SegTotal(rmsSegs))
  /\ pitchSegs = <<>>
  /\ ret = <<>>
  /\ harmonic_called = FALSE
  /\ BotIdle

DetectPauses ==
  /\ fn = "detect_pauses"
  /\ pc = "call"
  /\ ret' = detect_pauses(rms(nsamples, rmsSegs, rmsTail))
  /\ pc' = "ret"
  /\ UNCHANGED <<fn, text, lang, nsamples, rmsSegs, rmsTail, pitchSegs,
                 harmonic_called>>
  /\ UNCHANGED botVars

NextPauses == DetectPauses

SpecPauses == InitPauses /\ [][NextPauses]_vars

----------------------------------------------------------------------------
(* analyze_prosody on its own                                              *)

MaxProsodyFrames == 3

\* selected pitches in 0.1 Hz (0: unvoiced frame), around the cutoffs of
\* 30 Hz and 60 Hz for the standard deviation of two or three values
ProsodyPitchVals == {0, 1000, 1600, 1636, 2200, 2273}

\* frame energies in 1e-4, around the cutoffs of 0.015 and 0.03
ProsodyEnergyVals == {0, 300, 318, 600, 637, 700}

\* 12 frames with 10, 11 or 12 voiced ones
LongPitchSegs ==
  { <<[val |-> a, len |-> k], [val |-> b, len |-> 6]>> :
      a \in {1000, 1600}, b \in {1000, 1600}, k \in {4, 5, 6} }

FrameSeqs(S, k) == { [j \in 1..k |-> [val |-> v[j], len |-> 1]] : v \in [1..k -> S] }

InitProsody ==
  /\ fn = "analyze_prosody"
  /\ pc = "call"
  /\ text = <<>>
  /\ lang \in Langs
  /\ \/ \E k \in 2..MaxProsodyFrames :
          /\ nsamples = FrameSamples(k)
          /\ pitchSegs \in FrameSeqs(ProsodyPitchVals, k)
     \/ /\ nsamples = FrameSamples(12)
        /\ pitchSegs \in LongPitchSegs
  /\ \E v \in ProsodyEnergyVals : rmsSegs = <<[val |-> v, len |-> 1]>>
  /\ rmsTail = 0
  /\ ret = <<>>
  /\ harmonic_called = FALSE
  /\ BotIdle

AnalyzeProsody ==
  /\ fn = "analyze_prosody"
  /\ pc = "call"
  /\ \E harm \in HarmonicOutputs(voiced_pitch(piptrack_selected(nsamples, pitchSegs))) :
       ret' \in analyze_prosody(piptrack_selected(nsamples, pitchSegs),
                                rms(nsamples, rmsSegs, rmsTail), lang, harm)
  /\ pc' = "ret"
  /\ harmonic_called' = smoothed(voiced_pitch(piptrack_selected(nsamples, pitchSegs)))
  /\ UNCHANGED <<fn, text, lang, nsamples, rmsSegs, rmsTail, pitchSegs>>
  /\ UNCHANGED botVars

NextProsody == AnalyzeProsody

SpecProsody == InitProsody /\ [][NextProsody]_vars

----------------------------------------------------------------------------
(* analyze_speech                                                          *)

\* len(y): no samples, about half a second, 1 s, about 2 s, 2 s, 10 s, 20 s
\* and 60 s
SpeechSampleCounts == {0, 8003, 16000, 31990, 32000, 160000, 320000, 960000}

SpeechWordCounts == {0, 1, 2, 5, 130}

\* "um " and ", "
SpeechTexts ==
  { Repeat(<<117, 109, 32>>, k) : k \in SpeechWordCounts } \cup { <<44, 32>> }

\* silent runs of 12, 33 and 48 frames between louder frames
ThreePauses ==
  << [val |-> 0, len |-> 12], [val |-> 2, len |-> 20],
     [val |-> 0, len |-> 33], [val |-> 2, len |-> 20],
     [val |-> 0, len |-> 48] >>

SpeechShapes ==
  { <<>>, ThreePauses, <<[val |-> 0, len |-> 12]>>,
    <<[val |-> 1, len |-> 20], [val |-> 0, len |-> 40]>> }

SpeechPitchSegs ==
  { <<>>, <<[val |-> 1000, len |-> 1], [val |-> 1600, len |-> 1]>> }

\* the short recordings with every shape; the recordings of 10 s, 20 s and
\* 60 s with the silent recording and the one of three pauses
InitSpeech ==
  /\ fn = "analyze_speech"
  /\ pc = "call"
  /\ text \in SpeechTexts
  /\ lang \in Langs
  /\ \/ /\ nsamples \in { n \in SpeechSampleCounts : n <= 2 * SR }
        /\ rmsSegs \in SpeechShapes
        /\ rmsTail \in {0, MaxLevel}
        /\ pitchSegs \in SpeechPitchSegs
     \/ /\ nsamples \in { n \in SpeechSampleCounts : n > 2 * SR }
        /\ \/ rmsSegs = <<>> /\ rmsTail = 0
           \/ rmsSegs = ThreePauses /\ rmsTail = MaxLevel
        /\ pitchSegs = <<>>
  /\ ret = <<>>
  /\ harmonic_called = FALSE
  /\ BotIdle

AnalyzeSpeech ==
  /\ fn = "analyze_speech"
  /\ pc = "call"
  /\ \E harm \in HarmonicOutputs(voiced_pitch(piptrack_selected(nsamples, pitchSegs))) :
       ret' \in analyze_speech(nsamples, rms(nsamples, rmsSegs, rmsTail),
                               piptrack_selected(nsamples, pitchSegs),
                               text, lang, harm)
  /\ pc' = "ret"
  /\ harmonic_called' = smoothed(voiced_pitch(piptrack_selected(nsamples, pitchSegs)))
  /\ UNCHANGED <<fn, text, lang, nsamples, rmsSegs, rmsTail, pitchSegs>>
  /\ UNCHANGED botVars

NextSpeech == AnalyzeSpeech

SpecSpeech == InitSpeech /\ [][NextSpeech]_vars

----------------------------------------------------------------------------
(* update_user_stats and stats_handler on their own                        *)

FnIdle ==
  /\ fn = "none"
  /\ pc = "idle"
  /\ text = <<>>
  /\ lang = "en"
  /\ NoWave
  /\ ret = <<>>
  /\ harmonic_called = FALSE

\* the fields of an analysis that update_user_stats reads
Analyses ==
  { [words_per_minute |-> 1200, fillers_count |-> 0, duration_sec |-> 100],
    [words_per_minute |-> 1305, fillers_count |-> 3, duration_sec |-> 250] }

\* the numbers of analyses followed: of user 1, and of each other user
MaxUpdates == 11

MaxOtherUpdates == 1

UpdateCap(u) == IF u = 1 THEN MaxUpdates ELSE MaxOtherUpdates

InitStats ==
  /\ FnIdle
  /\ BotIdle

UpdateUserStats(u, a) ==
  /\ Len(history_log[u]) < UpdateCap(u)
  /\ user_stats' = update_user_stats(user_stats, u, a)
  /\ history_log' = [history_log EXCEPT ![u] = Append(@, summary(a, Now))]
  /\ reply' = NoReply
  /\ UNCHANGED <<user_languages, pipe, tasks, files, clashes>>
  /\ UNCHANGED fnVars

StatsHandler(u) ==
  /\ reply' \in stats_handler(user_stats, user_languages, u)
  /\ UNCHANGED <<user_stats, user_languages, history_log, pipe, tasks, files,
                 clashes>>
  /\ UNCHANGED fnVars

NextStats ==
  \/ \E u \in Users, a \in Analyses : UpdateUserStats(u, a)
  \/ \E u \in Users : StatsHandler(u)

SpecStats == InitStats /\ [][NextStats]_vars

----------------------------------------------------------------------------
(* audio_handler on two audio messages, with language_callback            *)

\* what each message carries: the waveform ffmpeg decodes from it, its
\* per-frame arrays, and the transcript the recognizer returns for it
Recordings ==
  [r \in Runs |->
     IF r = 1
     THEN [nsamples |-> SR, rmsSegs |-> <<>>, rmsTail |-> MaxLevel,
           pitchSegs |-> <<>>,
           text |-> <<117, 109, 32, 117, 109>>]                       \* "um um"
     ELSE [nsamples |-> 2 * SR, rmsSegs |-> <<>>, rmsTail |-> MaxLevel,
           pitchSegs |-> <<>>,
           text |-> <<121, 111, 117, 32, 107, 110, 111, 119, 32, 108, 105, 107, 101>>]]   \* "you know like"

\* the file at a path is written by a run (creator) from the audio of a
\* message (origin); whole is FALSE for a file whose writing was cut short
FileOf(r, origin, whole) == [creator |-> r, origin |-> origin, whole |-> whole]

\* path holds a file written by another run that has not finished
Foreign(path, r) ==
  /\ path \in DOMAIN files
  /\ files[path].creator # r
  /\ tasks[files[path].creator].pc # "done"

\* the accesses that r makes with these kinds to these paths, where the
\* file is of another run
Clash(kind, r, paths) == { <<kind, r>> : q \in { x \in paths : Foreign(x, r) } }

\* the run enters an except clause and awaits the sending of the message
Raise(t, kind, step) ==
  [t EXCEPT !.pc = "except", !.raised = kind, !.failed_at = step]

\* lines 691-710: the message arrives, the handler starts and awaits the
\* sending of the status message
Receive(r, u) ==
  /\ tasks[r].pc = "idle"
  /\ pipe' = "loaded"
  /\ tasks' = [tasks EXCEPT ![r] =
       [@ EXCEPT !.pc = "processing",
                 !.user_id = u,
                 !.ui_lang = dict_get(user_languages, u, "en")]]
  /\ UNCHANGED <<user_stats, history_log, user_languages, reply, files, clashes>>
  /\ UNCHANGED fnVars

\* line 710 completes; line 713 awaits get_file
Processing(r) ==
  /\ tasks[r].pc = "processing"
  /\ tasks' = [tasks EXCEPT ![r] =
       [@ EXCEPT !.pc = "get_file", !.status = "processing"]]
  /\ UNCHANGED <<user_stats, history_log, user_languages, reply, pipe, files,
                 clashes>>
  /\ UNCHANGED fnVars

\* line 713 completes or raises; lines 714-715 await the download
GetFile(r) ==
  /\ tasks[r].pc = "get_file"
  /\ \/ tasks' = [tasks EXCEPT ![r] =
            [@ EXCEPT !.pc = "download",
                      !.input_path = temp_path(tasks[r].user_id, "ogg")]]
     \/ tasks' = [tasks EXCEPT ![r] = Raise(@, "Exception", "get_file")]
  /\ UNCHANGED <<user_stats, history_log, user_languages, reply, pipe, files,
                 clashes>>
  /\ UNCHANGED fnVars

\* line 715 completes, the file written, or raises, with no file or with a
\* part of it; line 719 awaits the edit of the status message
Download(r) ==
  /\ tasks[r].pc = "download"
  /\ LET path == tasks[r].input_path
     IN  \/ /\ files' = dict_set(files, path, FileOf(r, r, TRUE))
            /\ clashes' = clashes \cup Clash("overwrite", r, {path})
            /\ tasks' = [tasks EXCEPT ![r] = [@ EXCEPT !.pc = "converting"]]
         \/ /\ files' = dict_set(files, path, FileOf(r, r, FALSE))
            /\ clashes' = clashes \cup Clash("overwrite", r, {path})
            /\ tasks' = [tasks EXCEPT ![r] = Raise(@, "Exception", "download")]
         \/ /\ UNCHANGED <<files, clashes>>
            /\ tasks' = [tasks EXCEPT ![r] = Raise(@, "Exception", "download")]
  /\ UNCHANGED <<user_stats, history_log, user_languages, reply, pipe>>
  /\ UNCHANGED fnVars

\* line 719 completes; lines 720-729 run ffmpeg, which fails on a missing
\* input, and otherwise writes the WAV, exits with an error, or is stopped
\* after 60 s with a part of the WAV written; line 732 awaits the edit
Converting(r) ==
  /\ tasks[r].pc = "converting"
  /\ LET t   == [tasks[r] EXCEPT !.status = "converting",
                                  !.wav_path = temp_path(tasks[r].user_id, "wav")]
         in  == t.input_path
         out == t.wav_path
     IN  IF in \notin DOMAIN files
         THEN /\ tasks' = [tasks EXCEPT ![r] = Raise(t, "Exception", "ffmpeg")]
              /\ UNCHANGED <<files, clashes>>
         ELSE \/ /\ files' = dict_set(files, out, FileOf(r, files[in].origin, TRUE))
                 /\ clashes' = clashes \cup Clash("read", r, {in})
                                       \cup Clash("overwrite", r, {out})
                 /\ tasks' = [tasks EXCEPT ![r] = [t EXCEPT !.pc = "recognizing"]]
              \/ /\ UNCHANGED files
                 /\ clashes' = clashes \cup Clash("read", r, {in})
                 /\ tasks' = [tasks EXCEPT ![r] = Raise(t, "Exception", "ffmpeg")]
              \/ /\ files' = dict_set(files, out, FileOf(r, files[in].origin, FALSE))
                 /\ clashes' = clashes \cup Clash("read", r, {in})
                                       \cup Clash("overwrite", r, {out})
                 /\ tasks' = [tasks EXCEPT ![r] = Raise(t, "TimeoutExpired", "ffmpeg")]
  /\ UNCHANGED <<user_stats, history_log, user_languages, reply, pipe>>
  /\ UNCHANGED fnVars

\* line 732 completes; lines 733-743 recognize the speech of the WAV, which
\* raises on a missing file and may raise on any; line 746 awaits the edit
Recognizing(r) ==
  /\ tasks[r].pc = "recognizing"
  /\ LET t   == [tasks[r] EXCEPT !.status = "recognizing"]
         wav == t.wav_path
     IN  IF wav \notin DOMAIN files
         THEN /\ tasks' = [tasks EXCEPT ![r] = Raise(t, "Exception", "pipe")]
              /\ UNCHANGED clashes
         ELSE /\ clashes' = clashes \cup Clash("read", r, {wav})
              /\ \/ tasks' = [tasks EXCEPT ![r] =
                        [t EXCEPT !.pc = "analyzing", !.heard = files[wav].origin]]
                 \/ tasks' = [tasks EXCEPT ![r] = Raise(t, "Exception", "pipe")]
  /\ UNCHANGED <<user_stats, history_log, user_languages, reply, pipe, files>>
  /\ UNCHANGED fnVars

\* the analyses analyze_speech can return for the WAV of a message with
\* the transcript of a message
SpeechAnalyses(origin, heard) ==
  LET rec  == Recordings[origin]
      t    == Recordings[heard].text
      vals == piptrack_selected(rec.nsamples, rec.pitchSegs)
  IN  UNION { analyze_speech(rec.nsamples,
                             rms(rec.nsamples, rec.rmsSegs, rec.rmsTail),
                             vals, t, detect_language(t), harm) :
              harm \in HarmonicOutputs(voiced_pitch(vals)) }

\* SpeechAnalyses for every WAV and transcript of the two messages
analyze_speech_of == [origin \in Runs, heard \in Runs |-> SpeechAnalyses(origin, heard)]

\* a handler that stores an empty analysis when analyze_speech raises
Analyzing_storing(r) ==
  /\ tasks[r].pc = "analyzing"
  /\ LET t      == [tasks[r] EXCEPT !.status = "analyzing"]
         wav    == t.wav_path
         stored == update_user_stats(user_stats, t.user_id,
                     [words_per_minute |-> 0, fillers_count |-> 0,
                      duration_sec |-> 0])
     IN  IF wav \notin DOMAIN files
         THEN /\ tasks' = [tasks EXCEPT ![r] = Raise(t, "Exception", "analyze_speech")]
              /\ user_stats' = stored
              /\ UNCHANGED clashes
         ELSE /\ clashes' = clashes \cup Clash("read", r, {wav})
              /\ \/ /\ \E a \in analyze_speech_of[files[wav].origin, t.heard] :
                         tasks' = [tasks EXCEPT ![r] =
                           [t EXCEPT !.pc = "generating", !.analysis = a]]
                    /\ UNCHANGED user_stats
                 \/ /\ tasks' = [tasks EXCEPT ![r] =
                                    Raise(t, "Exception", "analyze_speech")]
                    /\ user_stats' = stored
  /\ UNCHANGED <<history_log, user_languages, reply, pipe, files>>
  /\ UNCHANGED fnVars

\* line 746 completes; line 747 calls analyze_speech, which raises on a
\* missing file and may raise on any; line 750 awaits the edit
Analyzing(r) ==
  /\ tasks[r].pc = "analyzing"
  /\ LET t   == [tasks[r] EXCEPT !.status = "analyzing"]
         wav == t.wav_path
     IN  IF wav \notin DOMAIN files
         THEN /\ tasks' = [tasks EXCEPT ![r] = Raise(t, "Exception", "analyze_speech")]
              /\ UNCHANGED clashes
         ELSE /\ clashes' = clashes \cup Clash("read", r, {wav})
              /\ \/ \E a \in analyze_speech_of[files[wav].origin, t.heard] :
                      tasks' = [tasks EXCEPT ![r] =
                        [t EXCEPT !.pc = "generating", !.analysis = a]]
                 \/ tasks' = [tasks EXCEPT ![r] = Raise(t, "Exception", "analyze_speech")]
  /\ UNCHANGED <<user_stats, history_log, user_languages, reply, pipe, files>>
  /\ UNCHANGED fnVars

\* line 750 completes; lines 751-757 query the language model, which may
\* raise, and update the statistics; line 761 awaits the deletion
Generating(r) ==
  /\ tasks[r].pc = "generating"
  /\ LET t == [tasks[r] EXCEPT !.status = "generating"]
     IN  \/ /\ user_stats' = update_user_stats(user_stats, t.user_id, t.analysis)
            /\ history_log' = [history_log EXCEPT ![t.user_id] =
                                  Append(@, summary(t.analysis, Now))]
            /\ tasks' = [tasks EXCEPT ![r] = [t EXCEPT !.pc = "deleting"]]
         \/ /\ UNCHANGED <<user_stats, history_log>>
            /\ tasks' = [tasks EXCEPT ![r] = Raise(t, "Exception", "query_llm")]
  /\ UNCHANGED <<user_languages, reply, pipe, files, clashes>>
  /\ UNCHANGED fnVars

\* line 761 completes; lines 764-769 await the sending of the response
Deleting(r) ==
  /\ tasks[r].pc = "deleting"
  /\ tasks' = [tasks EXCEPT ![r] =
       [@ EXCEPT !.pc = "replying", !.status = "deleted"]]
  /\ UNCHANGED <<user_stats, history_log, user_languages, reply, pipe, files,
                 clashes>>
  /\ UNCHANGED fnVars

\* line 769 completes; lines 772-778 await the sending of the completion
\* message
Replying(r) ==
  /\ tasks[r].pc = "replying"
  /\ tasks' = [tasks EXCEPT ![r] =
       [@ EXCEPT !.pc = "completing", !.replies = Append(@, "response")]]
  /\ UNCHANGED <<user_stats, history_log, user_languages, reply, pipe, files,
                 clashes>>
  /\ UNCHANGED fnVars

\* the finally clause, lines 789-797, ends the run
Finally(r, t) ==
  /\ files' = cleanup(files, t)
  /\ clashes' = clashes \cup Clash("delete", r, {t.input_path, t.wav_path})
  /\ tasks' = [tasks EXCEPT ![r] = [t EXCEPT !.pc = "done"]]

\* line 778 completes; the finally clause runs
Completing(r) ==
  /\ tasks[r].pc = "completing"
  /\ Finally(r, [tasks[r] EXCEPT !.replies = Append(@, "analysis_complete")])
  /\ UNCHANGED <<user_stats, history_log, user_languages, reply, pipe>>
  /\ UNCHANGED fnVars

\* the message of lines 783 or 786-787 is sent; the finally clause runs
Except(r) ==
  /\ tasks[r].pc = "except"
  /\ Finally(r, [tasks[r] EXCEPT !.replies = Append(@, error_key(tasks[r].raised))])
  /\ UNCHANGED <<user_stats, history_log, user_languages, reply, pipe>>
  /\ UNCHANGED fnVars

\* language_callback, lines 636-638, for the button lang_l
LanguageCallback(u, l) ==
  /\ user_languages' = dict_set(user_languages, u, l)
  /\ UNCHANGED <<user_stats, history_log, reply, pipe, tasks, files, clashes>>
  /\ UNCHANGED fnVars

\* a step of a run that has started
Step(r) ==
  \/ Processing(r)
  \/ GetFile(r)
  \/ Download(r)
  \/ Converting(r)
  \/ Recognizing(r)
  \/ Analyzing(r)
  \/ Generating(r)
  \/ Deleting(r)
  \/ Replying(r)
  \/ Completing(r)
  \/ Except(r)

InitBot ==
  /\ FnIdle
  /\ BotIdle

NextBot ==
  \/ \E r \in Runs, u \in Users : Receive(r, u)
  \/ \E r \in Runs : Step(r)
  \/ \E u \in Users, l \in Langs : LanguageCallback(u, l)

SpecBot == InitBot /\ [][NextBot]_vars

\* the runs of audio_handler alone
NextAudio ==
  \/ \E r \in Runs, u \in Users : Receive(r, u)
  \/ \E r \in Runs : Step(r)

SpecAudio == InitBot /\ [][NextAudio]_vars

\* the event loop resumes every run whose await has completed, and every
\* await of the handler completes or raises
FairSpecAudio == SpecAudio /\ \A r \in Runs : WF_vars(Step(r))

----------------------------------------------------------------------------
(* Properties of count_fillers                                             *)

FillersReturned == fn = "count_fillers" /\ pc = "ret"

Vocabulary(l) == IF l = "ru" THEN FILLERS_RU ELSE FILLERS_EN

Occurrences(words, t) == Cardinality({ i \in 1..Len(words) : words[i] = t })

IsSingleWord(k) == k # <<>> /\ \A i \in 1..Len(k) : IsWordChar(k[i])

Um == <<117, 109>>

Like == <<108, 105, 107, 101>>

YouKnow == <<121, 111, 117, 32, 107, 110, 111, 119>>

\* C3: for every transcript and both languages the total returned by
\* count_fillers is the sum of the values of the returned breakdown, and
\* every key of the breakdown has a count of at least 1 (the breakdown is a
\* bag and the total is its cardinality).
C3_TotalIsSumOfBreakdown ==
  FillersReturned =>
    /\ IsABag(ret.filler_details)
    /\ ret.total_count = BagCardinality(ret.filler_details)

\* a Russian transcript with two different fillers, one of them twice
C3_Witness ==
  /\ FillersReturned
  /\ lang = "ru"
  /\ Cardinality(DOMAIN ret.filler_details) = 2
  /\ ret.total_count = 3

\* C4: count_fillers counts case-insensitively and by whole word: every
\* token of the lower-cased transcript that is in the vocabulary of the
\* language is a key whose count is the number of occurrences of the token,
\* every key is such a token, and "um, like, this is, um, a test" in English
\* gives total 3 with breakdown {um: 2, like: 1}.
C4_CountsVocabularyTokens ==
  FillersReturned =>
    LET words == findall(lower(text))
        d     == ret.filler_details
    IN  /\ \A i \in 1..Len(words) :
             words[i] \in Vocabulary(lang) =>
               /\ words[i] \in DOMAIN d
               /\ d[words[i]] = Occurrences(words, words[i])
        /\ DOMAIN d \subseteq Vocabulary(lang)
        /\ DOMAIN d \subseteq Range(words)
        /\ (text = ScenarioTranscript /\ lang = "en") =>
             /\ ret.total_count = 3
             /\ d = (Um :> 2 @@ Like :> 1)

\* "Um, " then " like " then "um": a capital and two lower-case fillers
C4_Witness ==
  /\ FillersReturned
  /\ lang = "en"
  /\ text = <<85, 109, 44, 32>> \o <<32, 108, 105, 107, 101, 32>> \o Um
  /\ ret.filler_details = (Um :> 2 @@ Like :> 1)

\* C5: multi-word vocabulary entries are never matched: every key of the
\* breakdown is a single word token, no vocabulary entry that is not a
\* single word is a key, and a transcript that is only a multi-word filler
\* counts nothing.
C5_MultiWordNeverMatched ==
  FillersReturned =>
    /\ \A k \in DOMAIN ret.filler_details : IsSingleWord(k)
    /\ \A v \in Vocabulary(lang) :
         ~IsSingleWord(v) => v \notin DOMAIN ret.filler_details
    /\ (text = YouKnow /\ lang = "en") => ret.total_count = 0

\* the transcript "you know" in English
C5_Witness ==
  /\ FillersReturned
  /\ lang = "en"
  /\ text = YouKnow
  /\ ret.total_count = 0

----------------------------------------------------------------------------
(* Properties of detect_pauses                                             *)

PausesReturned == fn = "detect_pauses" /\ pc = "ret"

\* the maximal runs of consecutive silent frames, as <<first, last>>
MaximalRuns(silent) ==
  LET firsts == { a \in silent : (a - 1) \notin silent }
      lasts  == { b \in silent : (b + 1) \notin silent }
  IN  { r \in firsts \X lasts :
          r[1] <= r[2] /\ \A f \in r[1]..r[2] : f \in silent }

RunFrames(r) == r[2] - r[1] + 1

\* run_length_in_frames x hop / sample_rate, in milliseconds
RunMs(r) == (RunFrames(r) * hop * 1000) \div SR

\* the j-th run of a set of runs, in order of time
NthRun(runs, j) ==
  CHOOSE r \in runs : Cardinality({ q \in runs : q[1] < r[1] }) = j - 1

\* C6: every span duration returned by detect_pauses equals
\* (run_length_in_frames x hop) / sample_rate of the maximal run of
\* consecutive silent frames it was derived from.
C6_DurationIsRunLength ==
  PausesReturned =>
    LET silent == silence_frames(rms(nsamples, rmsSegs, rmsTail))
        kept   == { r \in MaximalRuns(silent) : keeps(span_ms(r[1], r[2])) }
    IN  /\ Len(ret) = Cardinality(kept)
        /\ \A j \in 1..Len(ret) : ret[j] = RunMs(NthRun(kept, j))

\* C7: detect_pauses discards exactly the runs shorter than 0.25 s: no
\* returned span is shorter than 0.25 s and every maximal run of silent
\* frames of at least 0.25 s (run length x hop / sample_rate), the final one
\* included, appears in the result.
C7_DiscardsExactlyShortRuns ==
  PausesReturned =>
    LET silent == silence_frames(rms(nsamples, rmsSegs, rmsTail))
    IN  /\ \A j \in 1..Len(ret) : ret[j] >= 250
        /\ Len(ret) =
             Cardinality({ r \in MaximalRuns(silent) : RunMs(r) >= 250 })

AllFramesEqual(energy) == Cardinality(Range(energy)) = 1

\* C8: a non-empty waveform whose frames all have the same energy gives at
\* least one span, and 5 seconds of silence give a span of about 5.0 s (to
\* within two frames).
C8_EqualEnergyGivesSpan ==
  (PausesReturned /\ nsamples > 0
     /\ AllFramesEqual(rms(nsamples, rmsSegs, rmsTail))) =>
    /\ Len(ret) >= 1
    /\ nsamples = 5 * SR =>
         \E j \in 1..Len(ret) :
           /\ ret[j] >= 5000 - 2 * span_ms(0, 1)
           /\ ret[j] <= 5000 + 2 * span_ms(0, 1)

----------------------------------------------------------------------------
(* Properties of analyze_speech                                            *)

SpeechReturned == fn = "analyze_speech" /\ pc = "ret"

TempoCategory(label) ==
  IF label \in {TEMPO_EN_OPTIMAL, TEMPO_RU_OPTIMAL} THEN "optimal"
  ELSE IF label \in {TEMPO_EN_SLOW, TEMPO_RU_SLOW} THEN "slow"
  ELSE IF label \in {TEMPO_EN_FAST, TEMPO_RU_FAST} THEN "fast"
  ELSE "none"

\* C1: for every transcript and duration the tempo_rating returned by
\* analyze_speech is optimal iff the reported words_per_minute is between 120
\* and 150 (both included), slow iff it is below 120 and fast iff it is
\* above 150, in both languages.  words_per_minute is in tenths.
C1_TempoMatchesReportedWpm ==
  SpeechReturned =>
    LET cat == TempoCategory(ret.tempo_rating)
        w   == ret.words_per_minute
    IN  /\ cat = "optimal" <=>
             (OPTIMAL_WPM_MIN * 10 <= w /\ w <= OPTIMAL_WPM_MAX * 10)
        /\ cat = "slow" <=> w < OPTIMAL_WPM_MIN * 10
        /\ cat = "fast" <=> w > OPTIMAL_WPM_MAX * 10

SpeechFieldsNonNegative ==
  /\ ret.duration_sec >= 0
  /\ ret.word_count >= 0
  /\ ret.words_per_minute >= 0
  /\ ret.short_pauses >= 0
  /\ ret.long_pauses >= 0
  /\ ret.fillers_count >= 0

SpeechScenarios ==
  /\ (ret.word_count = 130 /\ nsamples = 60 * SR) =>
       /\ ret.words_per_minute = 1300
       /\ TempoCategory(ret.tempo_rating) = "optimal"
  /\ (ret.word_count = 0 /\ nsamples = 10 * SR) =>
       /\ ret.words_per_minute = 0
       /\ TempoCategory(ret.tempo_rating) = "slow"

\* C2 as stated: words_per_minute equals word_count / (duration / 60) when
\* the duration is positive and is 0 when it is 0; the durations and counts
\* are non-negative; 130 words in 60 s give 130.0 and optimal, no word in
\* 10 s gives 0 and slow.  words_per_minute is in tenths and duration is
\* nsamples / SR.
C2_WpmIsExactQuotient ==
  SpeechReturned =>
    /\ ret.word_count = Len(findall(text))
    /\ nsamples > 0 =>
         ret.words_per_minute * nsamples = ret.word_count * 60 * SR * 10
    /\ nsamples = 0 => ret.words_per_minute = 0
    /\ SpeechFieldsNonNegative
    /\ SpeechScenarios

\* C2 as amended: words_per_minute is word_count / (duration / 60) rounded to
\* one decimal place (a nearest tenth) when the duration is positive and 0
\* when it is 0; the rest as stated.
C2_WpmIsRoundedQuotient ==
  SpeechReturned =>
    /\ ret.word_count = Len(findall(text))
    /\ nsamples > 0 =>
         LET diff == ret.words_per_minute * nsamples
                       - ret.word_count * 60 * SR * 10
         IN  2 * diff <= nsamples /\ 2 * diff >= 0 - nsamples
    /\ nsamples = 0 => ret.words_per_minute = 0
    /\ SpeechFieldsNonNegative
    /\ SpeechScenarios

\* 130 words in exactly 60 seconds
C2_Witness ==
  /\ SpeechReturned
  /\ nsamples = 60 * SR
  /\ ret.word_count = 130
  /\ ret.words_per_minute = 1300
  /\ ret.duration_sec = 6000
  /\ TempoCategory(ret.tempo_rating) = "optimal"

\* C9: short_pauses counts exactly the spans of detect_pauses between 0.3 s
\* and 1.0 s (both included), long_pauses exactly those above 1.5 s; a span
\* strictly between 1.0 s and 1.5 s is in neither bucket, none is in both,
\* and the two counts together do not exceed the number of spans.
C9_PauseBuckets ==
  SpeechReturned =>
    LET pauses == detect_pauses(rms(nsamples, rmsSegs, rmsTail))
        short  == { j \in 1..Len(pauses) :
                      pauses[j] >= 300 /\ pauses[j] <= 1000 }
        long   == { j \in 1..Len(pauses) : pauses[j] > 1500 }
        gap    == { j \in 1..Len(pauses) :
                      pauses[j] > 1000 /\ pauses[j] < 1500 }
    IN  /\ ret.short_pauses = Cardinality(short)
        /\ ret.long_pauses = Cardinality(long)
        /\ short \cap long = {}
        /\ ret.short_pauses + ret.long_pauses + Cardinality(gap) <= Len(pauses)

\* a recording with a short pause, a long pause and one of the gap band
C9_Witness ==
  /\ SpeechReturned
  /\ ret.short_pauses = 1
  /\ ret.long_pauses = 1
  /\ Len(detect_pauses(rms(nsamples, rmsSegs, rmsTail))) = 3

----------------------------------------------------------------------------
(* Properties of analyze_prosody                                           *)

ProsodyReturned == fn = "analyze_prosody" /\ pc = "ret"

MonotonyCategory(label) ==
  IF label \in {MONOTONY_EN_LIVELY, MONOTONY_RU_LIVELY} THEN "lively"
  ELSE IF label \in {MONOTONY_EN_MODERATE, MONOTONY_RU_MODERATE} THEN "moderate"
  ELSE IF label \in {MONOTONY_EN_HIGH, MONOTONY_RU_HIGH} THEN "high"
  ELSE "none"

DynamicsCategory(label) ==
  IF label \in {DYNAMICS_EN_PRONOUNCED, DYNAMICS_RU_PRONOUNCED} THEN "pronounced"
  ELSE IF label \in {DYNAMICS_EN_MEDIUM, DYNAMICS_RU_MEDIUM} THEN "medium"
  ELSE IF label \in {DYNAMICS_EN_FLAT, DYNAMICS_RU_FLAT} THEN "flat"
  ELSE "none"

\* C10: in both languages monotony is lively iff the reported pitch_variance
\* is above 60, moderate iff it is between 30 and 60 (both included), high
\* iff it is below 30; dynamics is pronounced iff the reported
\* energy_variance is above 0.03, medium iff it is between 0.015 and 0.03
\* (both included), flat iff it is below 0.015.  pitch_variance is in 0.1 Hz
\* and energy_variance in 1e-4.
C10_ProsodyMatchesReportedValues ==
  ProsodyReturned =>
    LET m  == MonotonyCategory(ret.monotony)
        d  == DynamicsCategory(ret.energy_rating)
        pv == ret.pitch_variance
        ev == ret.energy_variance
    IN  /\ m = "lively" <=> pv > 600
        /\ m = "moderate" <=> (pv >= 300 /\ pv <= 600)
        /\ m = "high" <=> pv < 300
        /\ d = "pronounced" <=> ev > 300
        /\ d = "medium" <=> (ev >= 150 /\ ev <= 300)
        /\ d = "flat" <=> ev < 150

\* the voiced observations of the call: the selected candidates above zero,
\* in frame order
VoicedObservations == voiced_pitch(piptrack_selected(nsamples, pitchSegs))

\* C11 as stated: with fewer than 2 voiced observations pitch_mean and
\* pitch_variance are both 0; otherwise they are exactly the mean and the
\* standard deviation of the voiced observations.
C11_PitchStatsOfVoicedFrames ==
  ProsodyReturned =>
    LET p == VoicedObservations
        n == Len(p)
    IN  IF n < 2
        THEN ret.pitch_mean = 0 /\ ret.pitch_variance = 0
        ELSE /\ ret.pitch_mean * n = ArraySum(p)
             /\ ret.pitch_variance * ret.pitch_variance * n * n = n2var(p)

\* C11 amended: with fewer than 2 voiced observations pitch_mean and
\* pitch_variance are both 0; otherwise they are the mean and the standard
\* deviation, rounded to one decimal, of the voiced observations, taken
\* after the harmonic smoothing when there are more than 10 of them.
C11_PitchStatsRounded ==
  ProsodyReturned =>
    LET p == VoicedObservations
        n == Len(p)
    IN  IF n < 2
        THEN ret.pitch_mean = 0 /\ ret.pitch_variance = 0
        ELSE \E h \in (IF harmonic_called THEN HarmonicOutputs(p) ELSE {p}) :
               /\ ret.pitch_mean \in round_div(ArraySum(h), n)
               /\ ret.pitch_variance \in round_std(n2var(h), n, Spread(h))

\* a call with one unvoiced frame and two voiced ones of different pitch
C11_Witness ==
  /\ ProsodyReturned
  /\ Len(VoicedObservations) = 2
  /\ \E f \in DOMAIN piptrack_selected(nsamples, pitchSegs) :
       piptrack_selected(nsamples, pitchSegs)[f] = 0
  /\ ret.pitch_mean > 0
  /\ ret.pitch_variance > 0

\* C17: analyze_prosody skips the harmonic smoothing exactly when fewer than
\* 10 voiced observations remain, and applies it with 10 or more.
C17_SmoothsFromTenObservations ==
  ProsodyReturned => (harmonic_called <=> Len(VoicedObservations) >= 10)

----------------------------------------------------------------------------
(* Properties of analyze_text_quality                                      *)

TextQualityReturned == fn = "analyze_text_quality" /\ pc = "ret"

\* the sentences of the transcript
Sentences == sent_tokenize(text, lang)

\* the number of words of a sentence whose words are separated by single
\* blanks: one more than its blanks
WordCount(s) == 1 + Cardinality({ i \in DOMAIN s : s[i] = 32 })

\* C12: long_sentences lists, verbatim and in their order in the text,
\* exactly the sentences of more than 20 words (the one of 25 words is
\* listed, the one of exactly 20 is not); avg_sentence_length is the mean
\* of the word counts of the sentences, and 0 when there is no sentence.
C12_LongSentencesAndAverage ==
  TextQualityReturned =>
    LET S      == Sentences
        counts == [j \in DOMAIN S |-> WordCount(S[j])]
        longs  == { j \in DOMAIN S : counts[j] > 20 }
        long   == ret.long_sentences
        avg    == ret.avg_sentence_length
    IN  /\ Len(long) = Cardinality(longs)
        /\ \A k \in DOMAIN long : long[k] = S[NthFrame(longs, k)]
        /\ \A k \in DOMAIN long : long[k] # Sentence20
        /\ (\E j \in DOMAIN S : S[j] = Sentence25)
             => \E k \in DOMAIN long : long[k] = Sentence25
        /\ avg.den >= 1
        /\ IF S = <<>>
           THEN avg.num = 0
           ELSE avg.num * Len(S) = ArraySum(counts) * avg.den

\* a text of a long sentence, the one of exactly 20 words and a third one
C12_Witness ==
  /\ TextQualityReturned
  /\ ret.sentence_count = 3
  /\ Sentences[1] = Sentence25
  /\ Sentences[2] = Sentence20
  /\ Sentences[3] = Sentence21
  /\ ret.long_sentences = <<Sentence25, Sentence21>>
  /\ ret.avg_sentence_length.num = 66

Hello == <<104, 101, 108, 108, 111>>

This == <<116, 104, 105, 115>>

There == <<116, 104, 101, 114, 101>>

\* C13: a word is in repetitions iff its lower-cased form has more than 4
\* characters and occurs at least 3 times among the lower-cased words of
\* the text; its count is its number of occurrences; no word of 4
\* characters or fewer and no count below 3 is reported.
C13_RepetitionsAreFrequentLongWords ==
  TextQualityReturned =>
    LET words == findall(lower(text))
        rep   == ret.repetitions
    IN  /\ \A w \in Range(words) :
             w \in DOMAIN rep <=> (Len(w) > 4 /\ Occurrences(words, w) >= 3)
        /\ \A w \in DOMAIN rep :
             /\ w \in Range(words)
             /\ rep[w] = Occurrences(words, w)
             /\ Len(w) > 4
             /\ rep[w] >= 3

\* "Hello hello HELLO. This this this. there": hello is reported with 3
\* occurrences, this (3 occurrences, 4 characters) and there (one
\* occurrence) are not
C13_Witness ==
  /\ TextQualityReturned
  /\ Occurrences(findall(lower(text)), This) = 3
  /\ Occurrences(findall(lower(text)), There) = 1
  /\ DOMAIN ret.repetitions = {Hello}
  /\ ret.repetitions[Hello] = 3

\* C14: on the empty transcript count_fillers returns a total of 0 with an
\* empty breakdown and analyze_text_quality returns sentence_count 0,
\* avg_sentence_length 0, no long sentences and no repetitions.
C14_EmptyTranscript ==
  (pc = "ret" /\ text = <<>>) =>
    /\ fn = "count_fillers" =>
         /\ ret.total_count = 0
         /\ ret.filler_details = EmptyDict
    /\ fn = "analyze_text_quality" =>
         /\ ret.sentence_count = 0
         /\ ret.avg_sentence_length.num = 0
         /\ ret.avg_sentence_length.den # 0
         /\ ret.long_sentences = <<>>
         /\ ret.repetitions = EmptyDict

C14_Witness ==
  /\ TextQualityReturned
  /\ text = <<>>
  /\ ret.sentence_count = 0

----------------------------------------------------------------------------
(* Properties of the statistics                                            *)

\* the last k entries of a sequence q
LastOf(q, k) == SubSeq(q, Len(q) - k + 1, Len(q))

\* C15: the history of a user holds at most 10 entries and is exactly the
\* last min(n, 10) of the n summaries appended for the user, in the order
\* of arrival: the 11th append evicts the oldest entry only.
C15_HistoryIsLastTen ==
  \A u \in Users :
    LET log == history_log[u]
        n   == Len(log)
    IN  n > 0 =>
          /\ u \in DOMAIN user_stats
          /\ Len(user_stats[u].analyses_history) <= 10
          /\ user_stats[u].analyses_history = LastOf(log, IF n < 10 THEN n ELSE 10)

\* after 11 appends the first summary, which differs from the last, is gone
C15_Witness ==
  /\ Len(history_log[1]) = 11
  /\ history_log[1][1] # history_log[1][11]
  /\ history_log[1][1] # history_log[1][2]
  /\ Len(user_stats[1].analyses_history) = 10
  /\ user_stats[1].analyses_history[1] = history_log[1][2]
  /\ user_stats[1].analyses_history[10] = history_log[1][11]

\* C20: after n updates for a user total_analyses is n and total_wpm and
\* total_fillers are the sums over all n analyses, not only over the 10
\* retained; a user updated n = 0 times has no record, so the updates of
\* the others leave each record as its own updates made it; stats_handler
\* takes the averages only with total_analyses >= 1.
C20_TotalsCoverAllAnalyses ==
  /\ \A u \in Users :
       LET log == history_log[u]
           n   == Len(log)
       IN  IF n = 0
           THEN u \notin DOMAIN user_stats
           ELSE /\ u \in DOMAIN user_stats
                /\ user_stats[u].total_analyses = n
                /\ user_stats[u].total_wpm = ArraySum([j \in 1..n |-> log[j].wpm])
                /\ user_stats[u].total_fillers =
                     ArraySum([j \in 1..n |-> log[j].fillers])
                /\ user_stats[u].last_analysis_date = log[n].date
  /\ reply.kind = "stats_title" =>
       /\ reply.divisor >= 1
       /\ reply.divisor = Len(history_log[reply.to])
  /\ reply.kind = "stats_empty" => Len(history_log[reply.to]) = 0

\* user 1 has 11 analyses whose totals exceed those of the retained 10,
\* user 2 has one, and /stats has just been answered with averages
C20_Witness ==
  /\ Len(history_log[1]) = 11
  /\ Len(history_log[2]) = 1
  /\ user_stats[1].total_wpm >
       ArraySum([j \in 1..10 |-> user_stats[1].analyses_history[j].wpm])
  /\ user_stats[2].total_analyses = 1
  /\ reply.kind = "stats_title"
  /\ reply.to = 1
  /\ reply.total_analyses = 11

----------------------------------------------------------------------------
(* Properties of audio_handler                                             *)

\* the steps of audio_handler up to and including analyze_speech
EarlySteps == {"get_file", "download", "ffmpeg", "pipe", "analyze_speech"}

\* the run has passed line 755 without raising
Stored(r) ==
  /\ tasks[r].pc \in {"deleting", "replying", "completing", "done"}
  /\ tasks[r].failed_at = "none"

StoredRuns(u) == { r \in Runs : tasks[r].user_id = u /\ Stored(r) }

\* the record of every user is the one that the analyses stored for the
\* user make, and a run that failed early has sent a failure message and
\* nothing else once it has finished
FailedRunsStoreNothing ==
  /\ \A u \in Users :
       LET log == history_log[u]
       IN  /\ Len(log) = Cardinality(StoredRuns(u))
           /\ IF log = <<>>
              THEN u \notin DOMAIN user_stats
              ELSE /\ u \in DOMAIN user_stats
                   /\ user_stats[u].total_analyses = Len(log)
                   /\ user_stats[u].analyses_history = log
  /\ \A r \in Runs :
       tasks[r].failed_at \in EarlySteps =>
         /\ ~Stored(r)
         /\ tasks[r].analysis = <<>>
         /\ tasks[r].pc \in {"except", "done"}
         /\ tasks[r].pc = "done" =>
              tasks[r].replies \in { <<"error">>, <<"timeout_error">> }

\* a step of a run leaves user_languages alone, and user_stats too when the
\* run has failed early
FailedRunsChangeNothing ==
  \A r \in Runs :
    tasks'[r] # tasks[r] =>
      /\ user_languages' = user_languages
      /\ tasks'[r].failed_at \in EarlySteps => user_stats' = user_stats

NoFilesOf(r) == \A q \in DOMAIN files : files[q].creator # r

====
